---- MODULE Spec2Model ----
(***************************************************************************)
(* Entity resolution service of the entity-service application             *)
(* (apps/entity-service/app/services/entity_resolution.py).                *)
(*                                                                         *)
(* One resolve_entity call is a sequence of steps; a step runs from one    *)
(* await on an external collaborator (the Neo4j entity store, the Redis    *)
(* cache) to the next, so concurrent calls interleave between steps.       *)
(* Confidence scores are percentages: 100 is 1.0, 85 is 0.85.              *)
(* Strings that the code concatenates or compares character by character   *)
(* (names, tenant and cell identifiers) are sequences of characters.       *)
(* Query results come back in creation order. The cosine similarity of two *)
(* embeddings of different texts is any of SimLevels. For two embeddings   *)
(* of the same text it is 1.0 up to floating-point rounding: the           *)
(* normalised dot product that cosine_similarity computes is not clipped,  *)
(* so it is 1.0 or the next float above it, written 101 here. A query      *)
(* either answers or raises, and a query that raised wrote nothing.        *)
(***************************************************************************)
EXTENDS Integers, Sequences, FiniteSets, TLC

\* ------------------------------------------------------------- bounds
\* entities the store may hold
MaxEntities == 3
\* entities the store holds before the first call
MaxSeed == 2
\* entities the store holds before the call of WideSpec
MaxWide == 6
\* entities the store holds before the call of FuzzySpec: past the LIMIT of
\* the fuzzy query
MaxFuzzy == 101

\* ---------------------------------------------------- program constants
similarity_threshold == 85
fuzzy_threshold == 80
\* the clustering strategy's minimum number of stored entities
min_cluster_entities == 3
\* the LIMIT of the exact, fuzzy, embedding and clustering queries
exact_limit == 10
fuzzy_limit == 100
embeddings_limit == 1000
clustering_limit == 500

Procs == {"p1", "p2"}
None == "none"

EXACT == "exact"
FUZZY == "fuzzy"
SEMANTIC == "semantic"
HYBRID == "hybrid"
ML_CLUSTERING == "ml_clustering"
MatchMethod == {EXACT, FUZZY, SEMANTIC, HYBRID, ML_CLUSTERING}

\* the values EntityType(...) accepts; any other raises ValueError
EntityType == {"organization", "person"}

Deps == {"store", "provider", "cache"}

\* ------------------------------------------------------------ strings
Max(a, b) == IF a >= b THEN a ELSE b
Min(a, b) == IF a <= b THEN a ELSE b

\* str.lower() on one character
LowerChar(c) == CASE c = "A" -> "a" [] c = "B" -> "b" [] c = "C" -> "c" [] OTHER -> c

\* str.lower()
RECURSIVE Lower(_)
Lower(s) == IF s = <<>> THEN <<>> ELSE <<LowerChar(Head(s))>> \o Lower(Tail(s))

\* number of matching characters of two strings (the matching blocks)
RECURSIVE Matching(_, _)
Matching(s, t) ==
    IF s = <<>> \/ t = <<>> THEN 0
    ELSE IF Head(s) = Head(t) THEN 1 + Matching(Tail(s), Tail(t))
    ELSE Max(Matching(Tail(s), t), Matching(s, Tail(t)))

\* fuzz.ratio: 100 for equal strings, 0 when one is empty, else
\* round(100 * 2 * M / T)
FuzzRatio(s, t) ==
    IF s = t THEN 100
    ELSE IF s = <<>> \/ t = <<>> THEN 0
    ELSE (400 * Matching(s, t) + (Len(s) + Len(t))) \div (2 * (Len(s) + Len(t)))

\* f"embeddings:{entity_type.value}:{tenant_id}:{cell_id}"
CacheKey(etype, tenant, cell) ==
    <<"embeddings", ":", etype, ":">> \o tenant \o <<":">> \o cell

\* ---------------------------------------------------------- attributes
\* An attribute value is a string or a list: [t |-> "str", v |-> characters]
\* or [t |-> "list", v |-> elements].
EmptyAttrs == [k \in {} |-> [t |-> "str", v |-> <<>>]]

Str(chars) == [t |-> "str", v |-> chars]
List(elems) == [t |-> "list", v |-> elems]

\* Python truthiness of an attribute value ("" and [] are falsy)
Truthy(x) == x.v # <<>>

\* isinstance(value, list)
IsList(x) == x.t = "list"

RECURSIVE SeqToSet(_)
SeqToSet(s) == IF s = <<>> THEN {} ELSE {Head(s)} \cup SeqToSet(Tail(s))

RECURSIVE SetToSeq(_)
SetToSeq(S) == IF S = {} THEN <<>>
               ELSE LET x == CHOOSE y \in S : TRUE IN <<x>> \o SetToSeq(S \ {x})

\* a merge in which the new value always won
MergeAttributesOverwrite(existing, new) ==
    [k \in DOMAIN existing \cup DOMAIN new |->
        IF k \in DOMAIN new THEN new[k] ELSE existing[k]]

\* a merge that kept only the keys of the new attributes
MergeAttributesReplace(existing, new) ==
    [k \in DOMAIN new |->
        IF k \notin DOMAIN existing THEN new[k]
        ELSE IF ~Truthy(existing[k]) THEN new[k]
        ELSE IF IsList(new[k]) /\ IsList(existing[k])
             THEN List(SetToSeq(SeqToSet(existing[k].v \o new[k].v)))
        ELSE existing[k]]

\* _merge_entity_data, the loop over new_attributes
MergeAttributes(existing, new) ==
    [k \in DOMAIN existing \cup DOMAIN new |->
        IF k \notin DOMAIN new THEN existing[k]
        ELSE IF k \notin DOMAIN existing THEN new[k]
        ELSE IF ~Truthy(existing[k]) THEN new[k]
        ELSE IF IsList(new[k]) /\ IsList(existing[k])
             THEN List(SetToSeq(SeqToSet(existing[k].v \o new[k].v)))
        ELSE existing[k]]

\* ---------------------------------------------------------- embeddings
\* The text handed to the embedding model: the name, then a "key: value"
\* fragment for every key of `keys`, in that order, that the attributes hold
\* with a truthy value. An embedding is written as the text it encodes.
RECURSIVE AttrTexts(_, _)
AttrTexts(attrs, keys) ==
    IF keys = <<>> THEN <<>>
    ELSE (IF Head(keys) \in DOMAIN attrs /\ Truthy(attrs[Head(keys)])
          THEN <<[key |-> Head(keys), value |-> attrs[Head(keys)]]>>
          ELSE <<>>) \o AttrTexts(attrs, Tail(keys))

\* _generate_embedding: the candidate's text
CandidateText(name, attrs) ==
    [name |-> name,
     attrs |-> AttrTexts(attrs, <<"address", "email", "phone", "business_name",
                                  "registration_number">>)]

\* _generate_and_cache_embeddings: a stored entity's text
EntityText(name, attrs) ==
    [name |-> name,
     attrs |-> AttrTexts(attrs, <<"address", "email", "phone", "business_name">>)]

\* cosine similarities (percent) the model draws from for two different texts
SimLevels == {70, 85, 100}

\* a similarity of 1.0 that rounding carried above 1.0
RoundedUp == 101

\* cosine_similarity of two embeddings; for the same text 1.0 or, by rounding,
\* just above it
CosineSimilarity(a, b) == IF a = b THEN {100, RoundedUp} ELSE SimLevels

\* ------------------------------------------------------------- matches
Match(id, conf, method) ==
    [matched_entity_id |-> id, confidence_score |-> conf, match_method |-> method]

\* _deduplicate_matches: one match per entity, in order of first appearance,
\* replaced only by a strictly higher confidence
RECURSIVE Deduplicate(_, _)
Deduplicate(acc, ms) ==
    IF ms = <<>> THEN acc
    ELSE LET m == Head(ms)
             hit == {i \in 1..Len(acc) : acc[i].matched_entity_id = m.matched_entity_id}
         IN  IF hit = {}
             THEN Deduplicate(Append(acc, m), Tail(ms))
             ELSE Deduplicate(
                    [i \in 1..Len(acc) |->
                        IF i \in hit /\ m.confidence_score > acc[i].confidence_score
                        THEN m ELSE acc[i]],
                    Tail(ms))

\* a deduplication that kept the first match of every entity
_deduplicate_first(ms) ==
    LET keep == {i \in 1..Len(ms) :
                   \A j \in 1..(i - 1) :
                      ms[j].matched_entity_id # ms[i].matched_entity_id}
        pos == [i \in keep |-> Cardinality({j \in keep : j <= i})]
    IN  [n \in 1..Cardinality(keep) |-> ms[CHOOSE i \in keep : pos[i] = n]]

\* a deduplication that handed its matches back in reverse order
_deduplicate_reversed(ms) ==
    LET kept == Deduplicate(<<>>, ms)
    IN  [i \in 1..Len(kept) |-> kept[Len(kept) + 1 - i]]

_deduplicate_matches(ms) == Deduplicate(<<>>, ms)

\* the matches of the confidences `levels`, highest confidence first, matches
\* of one confidence in the order they had
RECURSIVE SortDesc(_, _)
SortDesc(ms, levels) ==
    IF levels = {} THEN <<>>
    ELSE LET top == CHOOSE c \in levels : \A d \in levels : d <= c
         IN  SelectSeq(ms, LAMBDA m : m.confidence_score = top)
             \o SortDesc(ms, levels \ {top})

\* a _find_matches that did not sort
SortByConfidenceSkipped(ms) == ms

\* list.sort(key=confidence_score, reverse=True): stable, descending
SortByConfidence(ms) ==
    SortDesc(ms, {ms[i].confidence_score : i \in 1..Len(ms)})

\* --------------------------------------------------------------- state
VARIABLES
    store,    \* the Neo4j Entity nodes, in creation order; an entity's id is its position
    cache,    \* the Redis cache: key -> the cached entities and embeddings
    down,     \* the collaborators that fail when called now
    pc,       \* where each call stands
    req,      \* each call's arguments
    matches,  \* each call's matches so far
    work,     \* each call's locals across awaits
    result,   \* what each call returned
    ghost     \* per call: what it did (bookkeeping for the properties)

vars == <<store, cache, down, pc, req, matches, work, result, ghost>>

\* tenant and cell identifiers are arbitrary strings
TenantA == <<"a">>
CellA == <<"b", ":", "c">>
TenantB == <<"a", ":", "b">>
CellB == <<"c">>
Scopes == {<<TenantA, CellA>>, <<TenantB, CellB>>}

AllTypes == EntityType \cup {"bogus"}
CacheKeys == {CacheKey(t, sc[1], sc[2]) : t \in AllTypes, sc \in Scopes}

NoEntry == [present |-> FALSE, entities |-> <<>>, embeddings |-> <<>>]

NoReq == [has_name |-> FALSE, name |-> <<>>, entity_type |-> "bogus",
          attributes |-> EmptyAttrs, tenant_id |-> <<>>, cell_id |-> <<>>,
          match_method |-> EXACT, create_if_not_found |-> FALSE]

NoEntity == [id |-> 0, name |-> <<>>, entity_type |-> "", attributes |-> EmptyAttrs,
             tenant_id |-> <<>>, cell_id |-> <<>>]

NoWork == [target |-> 0, attributes |-> EmptyAttrs, built |-> NoEntry,
           produced |-> <<>>]

NoResult == [success |-> FALSE, action |-> None, entity |-> NoEntity,
             match_confidence |-> 0, match_method |-> None,
             alternatives |-> <<>>, error |-> None]

NoGhost == [start_store |-> <<>>, creates |-> 0, updates |-> 0,
            downstream |-> FALSE, stage |-> None, cluster |-> {}]

\* ------------------------------------------------------- the entity store
Entity(id, name, etype, attrs, tenant, cell) ==
    [id |-> id, name |-> name, entity_type |-> etype, attributes |-> attrs,
     tenant_id |-> tenant, cell_id |-> cell, created_at |-> 0, updated_at |-> 0]

\* the records of a query: the entities at the positions `hits`, in store order
Records(st, hits, i) ==
    LET at == SelectSeq([k \in 1..Len(st) |-> k], LAMBDA k : k >= i /\ k \in hits)
    IN  [n \in 1..Len(at) |-> st[at[n]]]

\* MATCH (e:Entity {name, entity_type, tenant_id, cell_id})
ExactHit(e, r) ==
    /\ e.name = r.name
    /\ e.entity_type = r.entity_type
    /\ e.tenant_id = r.tenant_id
    /\ e.cell_id = r.cell_id

\* MATCH (e:Entity {entity_type, tenant_id, cell_id})
ScopeHit(e, etype, tenant, cell) ==
    /\ e.entity_type = etype
    /\ e.tenant_id = tenant
    /\ e.cell_id = cell

\* MATCH (e:Entity {id, tenant_id, cell_id})
IdHit(e, id, tenant, cell) ==
    /\ e.id = id
    /\ e.tenant_id = tenant
    /\ e.cell_id = cell

\* LIMIT n
Limit(records, n) == SubSeq(records, 1, Min(n, Len(records)))

FindExact(st, r) ==
    Limit(Records(st, {i \in 1..Len(st) : ExactHit(st[i], r)}, 1), exact_limit)

FindByType(st, etype, tenant, cell, n) ==
    Limit(Records(st, {i \in 1..Len(st) : ScopeHit(st[i], etype, tenant, cell)}, 1), n)

FindById(st, id, tenant, cell) ==
    Records(st, {i \in 1..Len(st) : IdHit(st[i], id, tenant, cell)}, 1)

\* ------------------------------------------------------------ strategies
\* _exact_match: every record is a match of confidence 1.0
ExactMatches(st, r) ==
    LET found == FindExact(st, r)
    IN  [i \in 1..Len(found) |-> Match(found[i].id, 100, EXACT)]

\* _fuzzy_match: fuzz.ratio of the lowered names, kept from fuzzy_threshold up
FuzzyOver(found, name) ==
    LET scored == [i \in 1..Len(found) |->
                     Match(found[i].id,
                           FuzzRatio(Lower(name), Lower(found[i].name)), FUZZY)]
    IN  SelectSeq(scored, LAMBDA m : m.confidence_score >= fuzzy_threshold)

\* a fuzzy strategy that kept only the names above the threshold
FuzzyMatchesAbove(st, r) ==
    SelectSeq(FuzzyOver(FindByType(st, r.entity_type, r.tenant_id, r.cell_id,
                                   fuzzy_limit), r.name),
              LAMBDA m : m.confidence_score > fuzzy_threshold)

FuzzyMatches(st, r) ==
    FuzzyOver(FindByType(st, r.entity_type, r.tenant_id, r.cell_id, fuzzy_limit),
              r.name)

\* _semantic_match: the loop over the similarities, kept from
\* similarity_threshold up
RECURSIVE SemanticOver(_, _, _)
SemanticOver(entities, sims, i) ==
    IF i > Len(entities) THEN <<>>
    ELSE (IF sims[i] >= similarity_threshold
          THEN <<Match(entities[i].id, sims[i], SEMANTIC)>>
          ELSE <<>>) \o SemanticOver(entities, sims, i + 1)

\* the similarity vectors cosine_similarity may return for the candidate
\* against the cached embeddings
Similarities(r, data) ==
    LET texts == {data.embeddings[i] : i \in 1..Len(data.embeddings)}
        candidate == CandidateText(r.name, r.attributes)
        \* equal embeddings have equal similarities
        bytext == {f \in [texts -> SimLevels \cup {RoundedUp}] :
                     \A t \in texts : f[t] \in CosineSimilarity(candidate, t)}
    IN  {[i \in 1..Len(data.embeddings) |-> f[data.embeddings[i]]] : f \in bytext}

\* _generate_and_cache_embeddings: the entities and the texts encoded
BuildEmbeddings(found) ==
    [present |-> TRUE,
     entities |-> [i \in 1..Len(found) |->
                     [id |-> found[i].id, name |-> found[i].name,
                      attributes |-> found[i].attributes]],
     embeddings |-> [i \in 1..Len(found) |->
                       EntityText(found[i].name, found[i].attributes)]]

\* a clustering strategy that ran on any number of entities
CandidateClustersAnySize(found) == SUBSET (1..Len(found))

\* _ml_clustering_match: the positions of the query result that fit_predict
\* may put in the candidate's cluster; none when the strategy returns early
\* or labels the candidate noise
CandidateClusters(found) ==
    IF Len(found) < min_cluster_entities THEN {{}}
    ELSE SUBSET (1..Len(found))

\* a confidence without the cap of 0.9
ClusterConfidenceUncapped(cluster_size) == 50 + (cluster_size - 2) * 10

\* _ml_clustering_match: the matches when the candidate's cluster holds the
\* entities at positions `members` of the query result besides the candidate
ClusterConfidence(cluster_size) == Min(90, 50 + (cluster_size - 2) * 10)

RECURSIVE ClusterOver(_, _, _)
ClusterOver(found, members, i) ==
    IF i > Len(found) THEN <<>>
    ELSE (IF i \in members
          THEN <<Match(found[i].id, ClusterConfidence(Cardinality(members) + 1),
                       ML_CLUSTERING)>>
          ELSE <<>>) \o ClusterOver(found, members, i + 1)

\* ------------------------------------------------------- resolve_entity
\* max(matches, key=confidence_score): the first match of maximal confidence
BestMatch(ms) ==
    LET top == {i \in 1..Len(ms) :
                  \A j \in 1..Len(ms) : ms[j].confidence_score <= ms[i].confidence_score}
    IN  ms[CHOOSE i \in top : \A j \in top : i <= j]

\* matches[a:b] of Python, 0-based and end-exclusive
Slice(ms, a, b) == SubSeq(ms, a + 1, Min(b, Len(ms)))

\* the except branch of resolve_entity
ErrorResult(cause) ==
    [NoResult EXCEPT !.success = FALSE, !.action = "error", !.error = cause]

\* a 'matched' result whose alternatives started at the top of the list
MatchedResultFromTop(entity, best, ms) ==
    [success |-> TRUE, action |-> "matched", entity |-> entity,
     match_confidence |-> best.confidence_score,
     match_method |-> best.match_method,
     alternatives |-> Slice(ms, 0, 4), error |-> None]

MatchedResult(entity, best, ms) ==
    [success |-> TRUE, action |-> "matched", entity |-> entity,
     match_confidence |-> best.confidence_score,
     match_method |-> best.match_method,
     alternatives |-> Slice(ms, 1, 5), error |-> None]

CreatedResult(entity, ms) ==
    [success |-> TRUE, action |-> "created", entity |-> entity,
     match_confidence |-> 100, match_method |-> None,
     alternatives |-> Slice(ms, 0, 5), error |-> None]

\* a 'no_match' result that reported only four alternatives
NoMatchResultFour(ms) ==
    [success |-> TRUE, action |-> "no_match", entity |-> NoEntity,
     match_confidence |-> 0, match_method |-> None,
     alternatives |-> Slice(ms, 0, 4), error |-> None]

NoMatchResult(ms) ==
    [success |-> TRUE, action |-> "no_match", entity |-> NoEntity,
     match_confidence |-> 0, match_method |-> None,
     alternatives |-> Slice(ms, 0, 5), error |-> None]

\* a comparison that left a match of exactly the threshold out
GoodMatchStrict(ms) ==
    ms # <<>> /\ BestMatch(ms).confidence_score > similarity_threshold

\* the comparison of the best match with the threshold
GoodMatch(ms) ==
    ms # <<>> /\ BestMatch(ms).confidence_score >= similarity_threshold

\* an exception that left resolve_entity instead of reaching its except branch
RaiseEscapes(p, cause) ==
    /\ pc' = [pc EXCEPT ![p] = "raised"]
    /\ ghost' = [ghost EXCEPT ![p].downstream = TRUE, ![p].stage = pc[p]]
    /\ UNCHANGED <<matches, work, result>>

\* an exception reaches the except branch: the call returns the error result
Raise(p, cause) ==
    /\ pc' = [pc EXCEPT ![p] = "done"]
    /\ result' = [result EXCEPT ![p] = ErrorResult(cause)]
    /\ ghost' = [ghost EXCEPT ![p].downstream = TRUE, ![p].stage = pc[p]]
    /\ UNCHANGED <<matches, work>>

\* the step a call takes first, by method
FirstStep(method) ==
    CASE method = EXACT -> "exact"
      [] method = FUZZY -> "fuzzy"
      [] method = SEMANTIC -> "sem_get"
      [] method = HYBRID -> "exact"
      [] method = ML_CLUSTERING -> "cluster"

\* the end of _find_matches (deduplicate for HYBRID, sort) and the decision
\* that follows it, up to the next await
Decide(p, all) ==
    LET found == SortByConfidence(IF req[p].match_method = HYBRID
                                  THEN _deduplicate_matches(all) ELSE all)
        \* what the strategies produced, kept for the properties
        noted == [work EXCEPT ![p].produced = all]
    IN  /\ matches' = [matches EXCEPT ![p] = found]
        /\ IF GoodMatch(found)
           THEN /\ pc' = [pc EXCEPT ![p] = "merge_read"]
                /\ work' = [noted EXCEPT ![p].target = BestMatch(found).matched_entity_id]
                /\ UNCHANGED result
           ELSE IF req[p].create_if_not_found
           THEN /\ pc' = [pc EXCEPT ![p] = "create"]
                /\ work' = noted
                /\ UNCHANGED result
           ELSE /\ pc' = [pc EXCEPT ![p] = "done"]
                /\ result' = [result EXCEPT ![p] = NoMatchResult(found)]
                /\ work' = noted

\* resolve_entity up to its first await: the candidate and its embedding
Start(p, r) ==
    /\ pc[p] = "idle"
    /\ req' = [req EXCEPT ![p] = r]
    /\ matches' = [matches EXCEPT ![p] = <<>>]
    /\ work' = [work EXCEPT ![p] = NoWork]
    /\ LET g == [NoGhost EXCEPT !.start_store = store]
       IN  IF ~r.has_name \/ r.entity_type \notin EntityType
           THEN \* KeyError, or ValueError from EntityType(...)
                /\ pc' = [pc EXCEPT ![p] = "done"]
                /\ result' = [result EXCEPT ![p] = ErrorResult("invalid")]
                /\ ghost' = [ghost EXCEPT ![p] = [g EXCEPT !.stage = "candidate"]]
           ELSE IF r.match_method \in {SEMANTIC, HYBRID}
           THEN IF "provider" \in down
                THEN /\ pc' = [pc EXCEPT ![p] = "done"]
                     /\ result' = [result EXCEPT ![p] = ErrorResult("provider")]
                     /\ ghost' = [ghost EXCEPT ![p] =
                                    [g EXCEPT !.downstream = TRUE, !.stage = "embedding"]]
                ELSE /\ pc' = [pc EXCEPT ![p] = FirstStep(r.match_method)]
                     /\ result' = [result EXCEPT ![p] = NoResult]
                     /\ ghost' = [ghost EXCEPT ![p] = [g EXCEPT !.downstream = TRUE]]
           ELSE /\ pc' = [pc EXCEPT ![p] = FirstStep(r.match_method)]
                /\ result' = [result EXCEPT ![p] = NoResult]
                /\ ghost' = [ghost EXCEPT ![p] = g]
    /\ UNCHANGED <<store, cache, down>>

\* _exact_match
ExactStep(p) ==
    /\ pc[p] = "exact"
    /\ IF "store" \in down THEN Raise(p, "store")
       ELSE LET ms == ExactMatches(store, req[p])
            IN  /\ ghost' = [ghost EXCEPT ![p].downstream = TRUE]
                /\ IF req[p].match_method = HYBRID
                   THEN /\ matches' = [matches EXCEPT ![p] = ms]
                        /\ pc' = [pc EXCEPT ![p] = "fuzzy"]
                        /\ UNCHANGED <<work, result>>
                   ELSE Decide(p, ms)
    /\ UNCHANGED <<store, cache, down, req>>

\* _fuzzy_match
FuzzyStep(p) ==
    /\ pc[p] = "fuzzy"
    /\ IF "store" \in down THEN Raise(p, "store")
       ELSE LET ms == FuzzyMatches(store, req[p])
            IN  /\ ghost' = [ghost EXCEPT ![p].downstream = TRUE]
                /\ IF req[p].match_method = HYBRID
                   THEN /\ matches' = [matches EXCEPT ![p] = matches[p] \o ms]
                        /\ pc' = [pc EXCEPT ![p] = "sem_get"]
                        /\ UNCHANGED <<work, result>>
                   ELSE Decide(p, ms)
    /\ UNCHANGED <<store, cache, down, req>>

\* _semantic_match from the cached embeddings on: the similarities and the
\* matches, then the end of _find_matches
Semantic(p, data) ==
    IF data.embeddings = <<>>
    THEN \* cosine_similarity rejects an empty array: ValueError
         /\ pc' = [pc EXCEPT ![p] = "done"]
         /\ result' = [result EXCEPT ![p] = ErrorResult("empty_embeddings")]
         /\ ghost' = [ghost EXCEPT ![p].downstream = TRUE, ![p].stage = "cosine"]
         /\ UNCHANGED <<matches, work>>
    ELSE \E sims \in Similarities(req[p], data) :
            /\ ghost' = [ghost EXCEPT ![p].downstream = TRUE]
            /\ Decide(p, matches[p] \o SemanticOver(data.entities, sims, 1))

CacheKeyOf(r) == CacheKey(r.entity_type, r.tenant_id, r.cell_id)

\* _get_cached_embeddings: the cache read
CacheGet(p) ==
    /\ pc[p] = "sem_get"
    /\ IF "cache" \notin down /\ cache[CacheKeyOf(req[p])].present
       THEN Semantic(p, cache[CacheKeyOf(req[p])])
       ELSE \* a miss, or the read raised and was logged
            /\ pc' = [pc EXCEPT ![p] = "sem_query"]
            /\ ghost' = [ghost EXCEPT ![p].downstream = TRUE]
            /\ UNCHANGED <<matches, work, result>>
    /\ UNCHANGED <<store, cache, down, req>>

\* _generate_and_cache_embeddings: the store query and the batch encode
CacheQuery(p) ==
    /\ pc[p] = "sem_query"
    /\ IF "store" \in down THEN Raise(p, "store")
       ELSE LET found == FindByType(store, req[p].entity_type, req[p].tenant_id,
                                     req[p].cell_id, embeddings_limit)
            IN  IF found = <<>>
                THEN \* returns {"entities": [], "embeddings": []}, uncached
                     Semantic(p, [NoEntry EXCEPT !.present = TRUE])
                ELSE IF "provider" \in down THEN Raise(p, "provider")
                ELSE /\ work' = [work EXCEPT ![p].built = BuildEmbeddings(found)]
                     /\ pc' = [pc EXCEPT ![p] = "sem_set"]
                     /\ ghost' = [ghost EXCEPT ![p].downstream = TRUE]
                     /\ UNCHANGED <<matches, result>>
    /\ UNCHANGED <<store, cache, down, req>>

\* a cache write whose failure was raised to resolve_entity
CacheSetFatal(p) ==
    /\ pc[p] = "sem_set"
    /\ cache' = IF "cache" \in down THEN cache
                ELSE [cache EXCEPT ![CacheKeyOf(req[p])] = work[p].built]
    /\ IF "cache" \in down THEN Raise(p, "cache") ELSE Semantic(p, work[p].built)
    /\ UNCHANGED <<store, down, req>>

\* _generate_and_cache_embeddings: the cache write (a failure is logged), then
\* the rest of _semantic_match
CacheSet(p) ==
    /\ pc[p] = "sem_set"
    /\ cache' = IF "cache" \in down THEN cache
                ELSE [cache EXCEPT ![CacheKeyOf(req[p])] = work[p].built]
    /\ Semantic(p, work[p].built)
    /\ UNCHANGED <<store, down, req>>

\* _ml_clustering_match: the store query, the clustering and the matches
ClusterStep(p) ==
    /\ pc[p] = "cluster"
    /\ IF "store" \in down THEN Raise(p, "store")
       ELSE LET found == FindByType(store, req[p].entity_type, req[p].tenant_id,
                                     req[p].cell_id, clustering_limit)
            IN  \* the candidate is noise (no members) or shares a cluster
                \* with some of the entities
                \E members \in CandidateClusters(found) :
                    /\ ghost' = [ghost EXCEPT
                                   ![p].downstream = TRUE,
                                   ![p].cluster = {found[i].id : i \in members}]
                    /\ Decide(p, ClusterOver(found, members, 1))
    /\ UNCHANGED <<store, cache, down, req>>

\* _merge_entity_data: the read of the existing entity and the merge
MergeRead(p) ==
    /\ pc[p] = "merge_read"
    /\ IF "store" \in down THEN Raise(p, "store")
       ELSE LET found == FindById(store, work[p].target,
                                   req[p].tenant_id, req[p].cell_id)
            IN  IF found = <<>>
                THEN Raise(p, "not_found")
                ELSE /\ work' = [work EXCEPT ![p].attributes =
                                   MergeAttributes(found[1].attributes,
                                                   req[p].attributes)]
                     /\ pc' = [pc EXCEPT ![p] = "merge_write"]
                     /\ ghost' = [ghost EXCEPT ![p].downstream = TRUE]
                     /\ UNCHANGED <<matches, result>>
    /\ UNCHANGED <<store, cache, down, req>>

\* an update that also reset created_at
UpdateEntityRecreated(st, id, tenant, cell, attrs) ==
    [i \in 1..Len(st) |->
        IF IdHit(st[i], id, tenant, cell)
        THEN [st[i] EXCEPT !.attributes = attrs, !.updated_at = @ + 1,
                           !.created_at = @ + 1]
        ELSE st[i]]

\* SET e.attributes = $attributes, e.updated_at = datetime()
UpdateEntity(st, id, tenant, cell, attrs) ==
    [i \in 1..Len(st) |->
        IF IdHit(st[i], id, tenant, cell)
        THEN [st[i] EXCEPT !.attributes = attrs, !.updated_at = @ + 1]
        ELSE st[i]]

\* an update that was applied although its query raised
RunUpdateApplied(st, failed, id, tenant, cell, attrs) ==
    UpdateEntity(st, id, tenant, cell, attrs)

\* the store after run_query(update_query): a query that raised changed nothing
RunUpdate(st, failed, id, tenant, cell, attrs) ==
    IF failed THEN st ELSE UpdateEntity(st, id, tenant, cell, attrs)

\* a CREATE that left the node's entity_type out
NewEntityUntyped(id, r) ==
    Entity(id, r.name, "", r.attributes, r.tenant_id, r.cell_id)

\* the node CREATE (e:Entity {...}) adds
NewEntity(id, r) ==
    Entity(id, r.name, r.entity_type, r.attributes, r.tenant_id, r.cell_id)

\* a CREATE that added the node twice
RunCreateTwice(st, failed, r) ==
    IF failed THEN st
    ELSE Append(Append(st, NewEntity(Len(st) + 1, r)), NewEntity(Len(st) + 2, r))

\* the store after run_query(CREATE ...): a query that raised created nothing
RunCreate(st, failed, r) ==
    IF failed THEN st ELSE Append(st, NewEntity(Len(st) + 1, r))

\* _merge_entity_data: the update, and the 'matched' result
MergeWrite(p) ==
    /\ pc[p] = "merge_write"
    /\ LET id == work[p].target
           r == req[p]
           failed == "store" \in down
       IN  /\ store' = RunUpdate(store, failed, id, r.tenant_id, r.cell_id,
                                 work[p].attributes)
           /\ IF failed THEN Raise(p, "store")
              ELSE /\ result' = [result EXCEPT ![p] =
                        MatchedResult([id |-> id, name |-> store[id].name,
                                       entity_type |-> store[id].entity_type,
                                       attributes |-> work[p].attributes,
                                       tenant_id |-> r.tenant_id,
                                       cell_id |-> r.cell_id],
                                      BestMatch(matches[p]), matches[p])]
                   /\ pc' = [pc EXCEPT ![p] = "done"]
                   /\ ghost' = [ghost EXCEPT ![p].downstream = TRUE,
                                             ![p].updates = @ + 1]
                   /\ UNCHANGED <<matches, work>>
    /\ UNCHANGED <<cache, down, req>>

\* _create_entity, and the 'created' result
CreateStep(p) ==
    /\ pc[p] = "create"
    /\ LET r == req[p]
           failed == "store" \in down
       IN  /\ failed \/ Len(store) < MaxEntities
           /\ store' = RunCreate(store, failed, r)
           /\ IF failed THEN Raise(p, "store")
              ELSE /\ result' = [result EXCEPT ![p] =
                        CreatedResult([id |-> Len(store) + 1, name |-> r.name,
                                       entity_type |-> r.entity_type,
                                       attributes |-> r.attributes,
                                       tenant_id |-> r.tenant_id,
                                       cell_id |-> r.cell_id],
                                      matches[p])]
                   /\ pc' = [pc EXCEPT ![p] = "done"]
                   /\ ghost' = [ghost EXCEPT ![p].downstream = TRUE,
                                             ![p].creates = @ + 1]
                   /\ UNCHANGED <<matches, work>>
    /\ UNCHANGED <<cache, down, req>>

\* a collaborator becomes unavailable, or available again
Fail(d) ==
    /\ d \notin down
    /\ down' = down \cup {d}
    /\ UNCHANGED <<store, cache, pc, req, matches, work, result, ghost>>

Recover(d) ==
    /\ d \in down
    /\ down' = down \ {d}
    /\ UNCHANGED <<store, cache, pc, req, matches, work, result, ghost>>

\* ------------------------------------------------------- specifications
NameAbc == <<"a", "b", "c">>
NameCap == <<"A", "b", "c">>
NameAb == <<"a", "b">>

WithEmail == [k \in {"email"} |-> Str(<<"x">>)]
WithRegistration == [k \in {"registration_number"} |-> Str(<<"x">>)]

Requests(names, types, scopes, methods, creates, attrs) ==
    {[has_name |-> TRUE, name |-> n, entity_type |-> t, attributes |-> a,
      tenant_id |-> sc[1], cell_id |-> sc[2], match_method |-> m,
      create_if_not_found |-> c] :
        n \in names, t \in types, sc \in scopes, m \in methods, c \in creates,
        a \in attrs}

\* the stores of up to `n` entities with the names, types and scopes of `reqs`
RECURSIVE Stores(_, _)
Stores(reqs, n) ==
    IF n = 0 THEN {<<>>}
    ELSE LET smaller == Stores(reqs, n - 1)
         IN  smaller \cup
             {Append(st, NewEntity(Len(st) + 1, r)) :
                 st \in {x \in smaller : Len(x) = n - 1}, r \in reqs}

InitCalls ==
    /\ cache = [k \in CacheKeys |-> NoEntry]
    /\ pc = [p \in Procs |-> "idle"]
    /\ req = [p \in Procs |-> NoReq]
    /\ matches = [p \in Procs |-> <<>>]
    /\ work = [p \in Procs |-> NoWork]
    /\ result = [p \in Procs |-> NoResult]
    /\ ghost = [p \in Procs |-> NoGhost]

Step(p) ==
    \/ ExactStep(p)
    \/ FuzzyStep(p)
    \/ CacheGet(p)
    \/ CacheQuery(p)
    \/ CacheSet(p)
    \/ MergeRead(p)
    \/ MergeWrite(p)
    \/ CreateStep(p)

\* Spec: two concurrent calls, every collaborator available.
SpecRequests ==
    Requests({NameAbc, NameCap}, {"organization"}, Scopes,
             {EXACT, HYBRID}, {TRUE, FALSE}, {EmptyAttrs})

\* the entities persisted before the two calls: named "abc", in either scope
SpecSeeds ==
    Requests({NameAbc}, {"organization"}, Scopes, {EXACT}, {TRUE}, {EmptyAttrs})

Init ==
    /\ store \in Stores(SpecSeeds, MaxSeed)
    /\ down = {}
    /\ InitCalls

Next ==
    \/ \E p \in Procs, r \in SpecRequests : Start(p, r)
    \/ \E p \in Procs : Step(p)

Spec == Init /\ [][Next]_vars

\* SeqSpec: two calls, one after the other, every collaborator available.
ScopeA == {<<TenantA, CellA>>}

SeqRequests ==
    Requests({NameAbc, NameAb}, {"organization"}, ScopeA,
             MatchMethod, {TRUE, FALSE}, {EmptyAttrs})

SeqInit ==
    /\ store \in Stores(SeqRequests, MaxSeed)
    /\ down = {}
    /\ InitCalls

SeqNext ==
    \/ \E r \in SeqRequests : Start("p1", r)
    \/ \E r \in SeqRequests : pc["p1"] = "done" /\ Start("p2", r)
    \/ \E p \in Procs : Step(p) \/ ClusterStep(p)

SeqSpec == SeqInit /\ [][SeqNext]_vars

\* FaultSpec: one call, valid or not, while collaborators fail and recover.
FaultRequests ==
    LET valid == Requests({NameAbc, <<>>}, {"organization", "bogus"}, ScopeA,
                          MatchMethod, {TRUE, FALSE}, {EmptyAttrs, WithEmail})
    IN  valid \cup {[r EXCEPT !.has_name = FALSE, !.name = <<>>] : r \in valid}

FaultInit ==
    /\ store \in Stores(Requests({NameAbc, NameCap}, {"organization"}, ScopeA,
                                 {EXACT}, {TRUE}, {EmptyAttrs}), MaxSeed)
    /\ down \in SUBSET Deps
    /\ InitCalls

FaultNext ==
    \/ \E r \in FaultRequests : Start("p1", r)
    \/ Step("p1")
    \/ ClusterStep("p1")
    \/ \E d \in Deps : Fail(d)
    \/ \E d \in Deps : Recover(d)

FaultSpec == FaultInit /\ [][FaultNext]_vars

\* WideSpec: one call against a store of up to MaxWide entities of its scope,
\* every collaborator available; candidate lists grow past the five entries
\* a result reports.
WideRequests ==
    Requests({NameAbc}, {"organization"}, ScopeA, MatchMethod, {TRUE, FALSE},
             {EmptyAttrs})

WideSeeds ==
    Requests({NameAbc, NameAb}, {"organization"}, ScopeA, {EXACT}, {TRUE},
             {EmptyAttrs})

WideInit ==
    /\ store \in Stores(WideSeeds, MaxWide)
    /\ down = {}
    /\ InitCalls

WideNext ==
    \/ \E r \in WideRequests : Start("p1", r)
    \/ Step("p1")
    \/ ClusterStep("p1")

WideSpec == WideInit /\ [][WideNext]_vars

\* MergeSpec: two EXACT calls, one after the other, that merge attribute maps
\* into one stored entity; the maps hold empty and populated strings and
\* lists under two keys.
AttrKeys == {"email", "tags"}

AttrValues(k) ==
    IF k = "email"
    THEN {Str(<<>>), Str(<<"x">>), Str(<<"y">>), List(<<"u">>)}
    ELSE {Str(<<"x">>), List(<<"u">>), List(<<"v", "u">>)}

AttrMaps ==
    UNION {{f \in [D -> UNION {AttrValues(k) : k \in AttrKeys}] :
               \A k \in D : f[k] \in AttrValues(k)} : D \in SUBSET AttrKeys}

MergeRequests ==
    Requests({NameAbc}, {"organization"}, ScopeA, {EXACT}, {FALSE}, AttrMaps)

MergeInit ==
    /\ store \in {<<NewEntity(1, r)>> : r \in MergeRequests}
    /\ down = {}
    /\ InitCalls

MergeNext ==
    \/ \E r \in MergeRequests : Start("p1", r)
    \/ \E r \in MergeRequests : pc["p1"] = "done" /\ Start("p2", r)
    \/ \E p \in Procs : ExactStep(p) \/ MergeRead(p) \/ MergeWrite(p)

MergeSpec == MergeInit /\ [][MergeNext]_vars

\* RaceSpec: the two merging calls of MergeSpec, running concurrently.
RaceNext ==
    \/ \E p \in Procs, r \in MergeRequests : Start(p, r)
    \/ \E p \in Procs : ExactStep(p) \/ MergeRead(p) \/ MergeWrite(p)

RaceSpec == MergeInit /\ [][RaceNext]_vars

\* CaseSpec: two HYBRID calls for "abc", with or without a registration
\* number, one after the other, in either scope; the store holds "Abc" in one
\* scope and "abc" in the other.
CaseRequests ==
    Requests({NameAbc}, {"organization"}, Scopes, {HYBRID}, {TRUE, FALSE},
             {EmptyAttrs, WithRegistration})

CaseSeeds ==
    Requests({NameCap}, {"organization"}, ScopeA, {EXACT}, {TRUE}, {EmptyAttrs})
    \cup Requests({NameAbc}, {"organization"}, {<<TenantB, CellB>>}, {EXACT},
                  {TRUE}, {EmptyAttrs})

CaseInit ==
    /\ store \in Stores(CaseSeeds, MaxSeed)
    /\ down = {}
    /\ InitCalls

CaseNext ==
    \/ \E r \in CaseRequests : Start("p1", r)
    \/ \E r \in CaseRequests : pc["p1"] = "done" /\ Start("p2", r)
    \/ \E p \in Procs : Step(p)

CaseSpec == CaseInit /\ [][CaseNext]_vars

\* FuzzySpec: one FUZZY call against a store of up to MaxFuzzy entities of its
\* scope: some number of entities of one name, then one entity of another.
NameA == <<"a">>
NameAbd == <<"a", "b", "d">>
FuzzyNames == {NameA, NameAbd, NameAb, NameAbc, NameCap}

FuzzyRequests ==
    Requests({NameAbc}, {"organization"}, ScopeA, {FUZZY}, {FALSE}, {EmptyAttrs})

FuzzySeed(name) ==
    CHOOSE r \in Requests({name}, {"organization"}, ScopeA, {EXACT}, {TRUE},
                          {EmptyAttrs}) : TRUE

FuzzyStores ==
    {[i \in 1..n |-> NewEntity(i, FuzzySeed(IF i < n THEN first ELSE last))] :
        n \in 0..MaxFuzzy, first \in FuzzyNames, last \in FuzzyNames}

FuzzyInit ==
    /\ store \in FuzzyStores
    /\ down = {}
    /\ InitCalls

FuzzyNext ==
    \/ \E r \in FuzzyRequests : Start("p1", r)
    \/ FuzzyStep("p1")
    \/ MergeRead("p1")
    \/ MergeWrite("p1")

FuzzySpec == FuzzyInit /\ [][FuzzyNext]_vars

\* ------------------------------------------------------------ properties
\* the observation of call p has the (name, entity_type, tenant_id, cell_id)
\* of entity e
SameKey(e, r) ==
    /\ e.name = r.name
    /\ e.entity_type = r.entity_type
    /\ e.tenant_id = r.tenant_id
    /\ e.cell_id = r.cell_id

SameScope(e, r) ==
    /\ e.entity_type = r.entity_type
    /\ e.tenant_id = r.tenant_id
    /\ e.cell_id = r.cell_id

\* the entities persisted before call p started that have its observation's key
PersistedDuplicates(p) ==
    {i \in 1..Len(ghost[p].start_store) : SameKey(ghost[p].start_store[i], req[p])}

\* the entities now in the store with the key of call p's observation
KeyEntities(p) == {i \in 1..Len(store) : SameKey(store[i], req[p])}

Holds(ms, m) == \E k \in 1..Len(ms) : ms[k] = m

\* call p has left _find_matches: matches[p] is its candidate list
Decided(p) ==
    \/ pc[p] \in {"merge_read", "merge_write", "create"}
    \/ pc[p] = "done" /\ ghost[p].stage \in {None, "merge_read", "merge_write", "create"}

\* the ids a result hands to the caller: its entity and its alternatives
ReturnedIds(res) ==
    (IF res.action \in {"matched", "created"} THEN {res.entity.id} ELSE {})
    \cup {res.alternatives[k].matched_entity_id : k \in 1..Len(res.alternatives)}

\* C1: for an observation with the key of an entity persisted before the call,
\* the Exact strategy returns a match of confidence 1.0 for that entity, and
\* resolve_entity with method EXACT or HYBRID returns 'matched' with the id of
\* such an entity and creates nothing.
C1_ExactDuplicateIsMatched ==
    \A p \in Procs :
        (pc[p] # "idle" /\ req[p].match_method \in {EXACT, HYBRID}
                        /\ PersistedDuplicates(p) # {}) =>
            /\ \A i \in PersistedDuplicates(p) :
                   Holds(ExactMatches(store, req[p]), Match(i, 100, EXACT))
            /\ pc[p] \in {"fuzzy", "sem_get", "sem_query", "sem_set"} =>
                   \A i \in PersistedDuplicates(p) :
                       Holds(matches[p], Match(i, 100, EXACT))
            /\ pc[p] # "create"
            /\ ghost[p].creates = 0
            /\ pc[p] = "done" =>
                   /\ result[p].action = "matched"
                   /\ result[p].entity.id \in PersistedDuplicates(p)

\* C2: every id a call returns (its entity, its alternatives) is the id of an
\* entity of the call's own tenant and cell.
C2_ReturnedMatchesStayInScope ==
    \A p \in Procs :
        pc[p] = "done" =>
            \A id \in ReturnedIds(result[p]) :
                /\ store[id].tenant_id = req[p].tenant_id
                /\ store[id].cell_id = req[p].cell_id

C4_HybridCreatesInEmptyStore ==
    \A p \in Procs :
        LET mine == {i \in 1..Len(store) : SameScope(store[i], req[p])}
        IN  (/\ pc[p] = "done"
             /\ req[p].match_method = HYBRID
             /\ req[p].create_if_not_found
             /\ req[p].attributes = EmptyAttrs
             /\ \A i \in mine : i > Len(ghost[p].start_store)
                                /\ result[p].action = "created"
                                /\ result[p].entity.id = i) =>
                /\ result[p].action = "created"
                /\ result[p].entity.attributes = EmptyAttrs
                /\ mine = {result[p].entity.id}

\* C7: two calls with the same key, both creating if not found, both started
\* while the store held no such entity and both returning a result other than
\* an error, leave exactly one entity with that key, one call having created
\* it and the other having matched it.
C7_ConcurrentCreateLeavesOne ==
    (/\ pc["p1"] = "done" /\ pc["p2"] = "done"
     /\ req["p1"].name = req["p2"].name
     /\ req["p1"].entity_type = req["p2"].entity_type
     /\ req["p1"].tenant_id = req["p2"].tenant_id
     /\ req["p1"].cell_id = req["p2"].cell_id
     /\ req["p1"].create_if_not_found /\ req["p2"].create_if_not_found
     /\ PersistedDuplicates("p1") = {} /\ PersistedDuplicates("p2") = {}
     /\ result["p1"].action # "error" /\ result["p2"].action # "error") =>
        /\ Cardinality(KeyEntities("p1")) = 1
        /\ \E w \in Procs, l \in Procs :
              /\ result[w].action = "created"
              /\ result[l].action = "matched"
              /\ result[l].entity.id = result[w].entity.id

C6_SemanticFailureAbsorbed ==
    \A p \in Procs :
        (/\ pc[p] = "done"
         /\ req[p].match_method = HYBRID
         /\ ghost[p].stage \in {"sem_query", "cosine"}) =>
            result[p].action \in {"matched", "created", "no_match"}

\* C8: a call is never left by an exception, and what it returns has an action
\* among matched, created, no_match and error, with success false exactly for
\* error.
C8_AlwaysAResult ==
    \A p \in Procs :
        /\ pc[p] # "raised"
        /\ pc[p] = "done" =>
              /\ result[p].action \in {"matched", "created", "no_match", "error"}
              /\ result[p].success = (result[p].action # "error")

C8_Witness ==
    \E p \in Procs :
        /\ pc[p] = "done"
        /\ result[p].action = "error"
        /\ result[p].error = "provider"
        /\ ghost[p].stage = "sem_query"
        /\ ~result[p].success

\* C9: a call that returns 'error' leaves the store as it was when the call
\* started: it created nothing and updated nothing.
C9_ErrorLeavesStoreUntouched ==
    \A p \in Procs :
        (pc[p] = "done" /\ result[p].action = "error") =>
            /\ store = ghost[p].start_store
            /\ ghost[p].creates = 0
            /\ ghost[p].updates = 0

C9_Witness ==
    \E p \in Procs :
        /\ pc[p] = "done"
        /\ result[p].action = "error"
        /\ ghost[p].stage = "merge_write"
        /\ work[p].attributes # store[work[p].target].attributes

\* C10: a call whose observation has no name, an empty name or an unknown
\* entity_type returns 'error' and calls no collaborator.
C10_InvalidObservationFailsFast ==
    \A p \in Procs :
        (/\ pc[p] = "done"
         /\ \/ ~req[p].has_name
            \/ req[p].name = <<>>
            \/ req[p].entity_type \notin EntityType) =>
            /\ result[p].action = "error"
            /\ ~ghost[p].downstream

C12_NoMatchReportsFiveWritesNothing ==
    \A p \in Procs :
        (/\ pc[p] = "done"
         /\ Decided(p)
         /\ ~req[p].create_if_not_found
         /\ \A k \in 1..Len(matches[p]) :
               matches[p][k].confidence_score < similarity_threshold) =>
            /\ result[p].action = "no_match"
            /\ result[p].entity = NoEntity
            /\ result[p].alternatives =
                  SubSeq(matches[p], 1, Min(5, Len(matches[p])))
            /\ ghost[p].creates = 0
            /\ ghost[p].updates = 0
            /\ store = ghost[p].start_store

C12_Witness ==
    \E p \in Procs :
        /\ pc[p] = "done"
        /\ result[p].action = "no_match"
        /\ Len(matches[p]) = 6
        /\ Len(result[p].alternatives) = 5
        /\ result[p].alternatives[5].confidence_score < similarity_threshold

\* the merge rule in the words of C13, for existing map E, new map N and
\* written map M
MergedAsClaimed(E, N, M) ==
    /\ DOMAIN M = DOMAIN E \cup DOMAIN N
    /\ \A k \in DOMAIN N :
          IF k \notin DOMAIN E \/ ~Truthy(E[k]) THEN M[k] = N[k]
          ELSE IF IsList(E[k]) /\ IsList(N[k])
          THEN /\ IsList(M[k])
               /\ SeqToSet(M[k].v) = SeqToSet(E[k].v) \cup SeqToSet(N[k].v)
               /\ Len(M[k].v) = Cardinality(SeqToSet(M[k].v))
          ELSE M[k] = E[k]
    /\ \A k \in DOMAIN E \ DOMAIN N : M[k] = E[k]

\* C13: the map a merge writes adopts a new value where the existing one is
\* absent or falsy, unites two lists without duplicates, keeps a populated
\* existing value otherwise, and keeps every key the new map does not have.
C13_MergeWritesClaimedMap ==
    \A p \in Procs :
        (pc[p] = "done" /\ result[p].action = "matched") =>
            LET id == result[p].entity.id
                E == ghost[p].start_store[id].attributes
                N == req[p].attributes
            IN  /\ MergedAsClaimed(E, N, result[p].entity.attributes)
                /\ (p = "p2" \/ pc["p2"] = "idle") =>
                      store[id].attributes = result[p].entity.attributes

C13_Witness ==
    /\ pc["p2"] = "done"
    /\ result["p2"].action = "matched"
    /\ LET E == ghost["p2"].start_store[1].attributes
           N == req["p2"].attributes
       IN  /\ DOMAIN E = AttrKeys /\ DOMAIN N = AttrKeys
           /\ E["email"] = Str(<<"x">>) /\ N["email"] = Str(<<"y">>)
           /\ E["tags"] = List(<<"u">>) /\ N["tags"] = List(<<"v", "u">>)
           /\ Len(store[1].attributes["tags"].v) = 2

\* C20: two maps with disjoint keys, merged one after the other into an
\* entity with no attributes, leave their union, in either order.
C20_DisjointMergesCommute ==
    (/\ pc["p1"] = "done" /\ pc["p2"] = "done"
     /\ result["p1"].action = "matched" /\ result["p2"].action = "matched"
     /\ result["p1"].entity.id = result["p2"].entity.id
     /\ ghost["p1"].start_store[result["p1"].entity.id].attributes = EmptyAttrs
     /\ DOMAIN req["p1"].attributes \cap DOMAIN req["p2"].attributes = {}) =>
        LET N1 == req["p1"].attributes
            N2 == req["p2"].attributes
            M == store[result["p1"].entity.id].attributes
        IN  /\ M = [k \in DOMAIN N1 \cup DOMAIN N2 |->
                      IF k \in DOMAIN N1 THEN N1[k] ELSE N2[k]]
            /\ M = MergeAttributes(MergeAttributes(EmptyAttrs, N2), N1)

C20_Witness ==
    /\ pc["p1"] = "done" /\ pc["p2"] = "done"
    /\ result["p2"].action = "matched"
    /\ ghost["p1"].start_store[1].attributes = EmptyAttrs
    /\ DOMAIN req["p1"].attributes = {"tags"}
    /\ DOMAIN req["p2"].attributes = {"email"}
    /\ DOMAIN store[1].attributes = AttrKeys

\* C14: no step removes or replaces an entity or changes its id, name,
\* entity_type, tenant_id, cell_id or created_at; a step that completes a merge
\* refreshes the updated_at of the entity it merged into.
C14_EntitiesKeepIdentity ==
    [][/\ Len(store') >= Len(store)
       /\ \A i \in 1..Len(store) :
             /\ store'[i].id = store[i].id
             /\ store'[i].name = store[i].name
             /\ store'[i].entity_type = store[i].entity_type
             /\ store'[i].tenant_id = store[i].tenant_id
             /\ store'[i].cell_id = store[i].cell_id
             /\ store'[i].created_at = store[i].created_at
       /\ \A p \in Procs :
             ghost'[p].updates > ghost[p].updates =>
                store'[work[p].target].updated_at
                    > store[work[p].target].updated_at]_vars

C14_Witness ==
    \E p \in Procs :
        /\ pc[p] = "done"
        /\ result[p].action = "matched"
        /\ store[result[p].entity.id].updated_at > 0
        /\ store[result[p].entity.id].attributes
              # ghost[p].start_store[result[p].entity.id].attributes

\* C15: every confidence_score of every match a call holds, and every
\* match_confidence a call returns, lies between 0.0 and 1.0.
C15_ConfidenceWithinUnitInterval ==
    \A p \in Procs :
        /\ \A k \in 1..Len(matches[p]) :
              matches[p][k].confidence_score \in 0..100
        /\ (pc[p] = "done" /\ result[p].action \in {"matched", "created"}) =>
              result[p].match_confidence \in 0..100

\* C16: the candidate list handed to the decision has one match per entity,
\* every one of them produced by a strategy, and for every match a strategy
\* produced the list holds a match of that entity of at least its confidence.
C16_OneMatchPerEntityTheHighest ==
    \A p \in Procs :
        Decided(p) =>
            LET ms == matches[p]
                all == work[p].produced
            IN  /\ \A j, k \in 1..Len(ms) :
                      j # k => ms[j].matched_entity_id # ms[k].matched_entity_id
                /\ \A k \in 1..Len(ms) : Holds(all, ms[k])
                /\ \A n \in 1..Len(all) :
                      \E k \in 1..Len(ms) :
                         /\ ms[k].matched_entity_id = all[n].matched_entity_id
                         /\ ms[k].confidence_score >= all[n].confidence_score

C16_Witness ==
    \E p \in Procs :
        /\ Decided(p)
        /\ req[p].match_method = HYBRID
        /\ Holds(work[p].produced, Match(1, 80, FUZZY))
        /\ Holds(work[p].produced, Match(1, 85, SEMANTIC))
        /\ Holds(matches[p], Match(1, 85, SEMANTIC))

\* C17: of the matches of equal confidence that strategies produced for one
\* entity, the list keeps the one whose method comes first in the order
\* EXACT, SEMANTIC, FUZZY, CLUSTERING.
C17_TieKeepsPreferredMethod ==
    LET order == <<EXACT, SEMANTIC, FUZZY, ML_CLUSTERING>>
        rank(method) == CHOOSE i \in 1..Len(order) : order[i] = method
    IN  \A p \in Procs :
            Decided(p) =>
                \A k \in 1..Len(matches[p]), n \in 1..Len(work[p].produced) :
                    LET kept == matches[p][k]
                        other == work[p].produced[n]
                    IN  (/\ other.matched_entity_id = kept.matched_entity_id
                         /\ other.confidence_score = kept.confidence_score) =>
                            rank(kept.match_method) <= rank(other.match_method)

\* C18: the candidate list is in non-increasing order of confidence, and its
\* first element is the best match resolve_entity selects.
C18_ListSortedBestFirst ==
    \A p \in Procs :
        Decided(p) =>
            LET ms == matches[p]
            IN  /\ \A k \in 1..(Len(ms) - 1) :
                      ms[k].confidence_score >= ms[k + 1].confidence_score
                /\ ms # <<>> => BestMatch(ms) = ms[1]

C18_Witness ==
    \E p \in Procs :
        /\ Decided(p)
        /\ Len(matches[p]) >= 3
        /\ matches[p] # work[p].produced
        /\ Len(matches[p]) = Len(work[p].produced)
        /\ matches[p][1].confidence_score > matches[p][3].confidence_score

\* C19: deduplicating and sorting a candidate list again leaves it as it is,
\* entries of equal confidence included.
C19_AggregationIdempotent ==
    \A p \in Procs :
        Decided(p) =>
            SortByConfidence(_deduplicate_matches(matches[p])) = matches[p]

C19_Witness ==
    \E p \in Procs :
        /\ Decided(p)
        /\ Len(matches[p]) >= 4
        /\ matches[p][1].confidence_score = matches[p][2].confidence_score
        /\ matches[p][2].confidence_score > matches[p][4].confidence_score

\* C21: for every stored entity of the observation's type, tenant and cell
\* whose name has similarity s to the observation's, the Fuzzy strategy emits
\* no match when s < 80 and a match of confidence s/100 when s >= 80.
C21_FuzzyMatchesEveryEntity ==
    \A p \in Procs :
        (Decided(p) /\ req[p].match_method = FUZZY) =>
            \A i \in 1..Len(store) :
                SameScope(store[i], req[p]) =>
                    LET s == FuzzRatio(Lower(req[p].name), Lower(store[i].name))
                    IN  IF s < 80
                        THEN \A k \in 1..Len(work[p].produced) :
                                work[p].produced[k].matched_entity_id # i
                        ELSE Holds(work[p].produced, Match(i, s, FUZZY))

\* C21, amended: the same for every entity among the records the fuzzy
\* lookup returns, which are at most 100; an entity the lookup leaves out
\* gets no match.
C21_FuzzyMatchesEveryRecord ==
    \A p \in Procs :
        (Decided(p) /\ req[p].match_method = FUZZY) =>
            LET found == FindByType(store, req[p].entity_type, req[p].tenant_id,
                                    req[p].cell_id, fuzzy_limit)
                ids == {found[n].id : n \in 1..Len(found)}
            IN  /\ Len(found) <= 100
                /\ \A k \in 1..Len(work[p].produced) :
                      work[p].produced[k].matched_entity_id \in ids
                /\ \A i \in ids :
                      LET s == FuzzRatio(Lower(req[p].name), Lower(store[i].name))
                          mine == {k \in 1..Len(work[p].produced) :
                                     work[p].produced[k].matched_entity_id = i}
                      IN  IF s < 80 THEN mine = {}
                          ELSE /\ Cardinality(mine) = 1
                               /\ \A k \in mine :
                                     work[p].produced[k] = Match(i, s, FUZZY)

C21_Witness ==
    \E p \in Procs :
        /\ Decided(p)
        /\ req[p].match_method = FUZZY
        /\ Len(store) = fuzzy_limit
        /\ Holds(work[p].produced, Match(1, 80, FUZZY))
        /\ FuzzRatio(Lower(req[p].name), Lower(store[Len(store)].name)) = 67
        /\ \A k \in 1..Len(work[p].produced) :
              work[p].produced[k].matched_entity_id # Len(store)

\* the entities of the observation's type, tenant and cell that the store
\* held when call p started
ScopeEntities(p) ==
    {i \in 1..Len(ghost[p].start_store) :
        SameScope(ghost[p].start_store[i], req[p])}

\* C22: with fewer than 3 entities of the observation's type, tenant and cell
\* in the store, the Clustering strategy returns no match, and an
\* ML_CLUSTERING call is never 'matched'.
C22_ClusteringNeedsThreeEntities ==
    \A p \in Procs :
        (/\ Decided(p)
         /\ req[p].match_method = ML_CLUSTERING
         /\ Cardinality(ScopeEntities(p)) < 3) =>
            /\ work[p].produced = <<>>
            /\ matches[p] = <<>>
            /\ pc[p] \notin {"merge_read", "merge_write"}
            /\ result[p].action # "matched"

C22_Witness ==
    \E p \in Procs :
        /\ pc[p] = "done"
        /\ req[p].match_method = ML_CLUSTERING
        /\ Cardinality(ScopeEntities(p)) = 2
        /\ \A i \in ScopeEntities(p) : ghost[p].start_store[i].name = req[p].name
        /\ result[p].action = "no_match"

\* C23: when the candidate is noise the Clustering strategy returns no match;
\* otherwise it returns exactly one match for every other member of the
\* candidate's cluster, each of confidence min(0.9, 0.5 + (size - 2) * 0.1),
\* size counting the candidate; the confidence never exceeds 0.9 and does not
\* fall as the cluster grows.
C23_ClusterMatchesAndConfidence ==
    \A p \in Procs :
        (Decided(p) /\ req[p].match_method = ML_CLUSTERING) =>
            LET all == work[p].produced
                size == Cardinality(ghost[p].cluster) + 1
                raw == 50 + (size - 2) * 10
                conf == IF raw < 90 THEN raw ELSE 90
            IN  /\ ghost[p].cluster = {} => all = <<>>
                /\ Len(all) = Cardinality(ghost[p].cluster)
                /\ \A i \in ghost[p].cluster :
                      Holds(all, Match(i, conf, ML_CLUSTERING))
                /\ \A k \in 1..Len(all) :
                      /\ all[k].confidence_score <= 90
                      /\ all[k].confidence_score >= 50 + Min(size - 2, 4) * 10

C23_Witness ==
    \E p \in Procs :
        /\ Decided(p)
        /\ req[p].match_method = ML_CLUSTERING
        /\ Cardinality(ghost[p].cluster) = 6
        /\ Len(work[p].produced) = 6
        /\ \A k \in 1..6 : work[p].produced[k].confidence_score = 90

\* C24: a cache read that raises sends the call on to compute the embeddings
\* from the entity store, which are then what the call uses; a cache write
\* that raises leaves the call with the entities and embeddings it computed;
\* neither step ends the call with 'error'.
C24_CacheFailureNotFatal ==
    [][\A p \in Procs :
          /\ (pc[p] = "sem_get" /\ "cache" \in down /\ pc'[p] # "sem_get") =>
                 /\ pc'[p] = "sem_query"
                 /\ result'[p] = result[p]
          /\ (pc[p] = "sem_query" /\ pc'[p] = "sem_set") =>
                 work'[p].built =
                     BuildEmbeddings(FindByType(store, req[p].entity_type,
                                                req[p].tenant_id, req[p].cell_id,
                                                embeddings_limit))
          /\ (pc[p] = "sem_set" /\ "cache" \in down /\ pc'[p] # "sem_set") =>
                 /\ result'[p].action # "error"
                 /\ cache' = cache
                 /\ \E sims \in Similarities(req[p], work[p].built) :
                       work'[p].produced =
                           matches[p] \o SemanticOver(work[p].built.entities, sims, 1)
      ]_vars

C24_Witness ==
    \E p \in Procs :
        /\ pc[p] = "done"
        /\ req[p].match_method = SEMANTIC
        /\ "cache" \in down
        /\ work[p].built.present
        /\ ~cache[CacheKeyOf(req[p])].present
        /\ result[p].action = "matched"

\* C25: calls that missed the same cache key and have yet to write it hold
\* equal entities and embeddings, and every write of the key leaves the entry
\* that a call made right after it would compute from the store.
C25_StampedeConverges ==
    [][\A p \in Procs :
          /\ \A q \in Procs :
                (/\ pc[p] = "sem_set"
                 /\ pc[q] = "sem_set"
                 /\ CacheKeyOf(req[p]) = CacheKeyOf(req[q])) =>
                    work[p].built = work[q].built
          /\ (pc[p] = "sem_set" /\ pc'[p] # "sem_set") =>
                 cache'[CacheKeyOf(req[p])] =
                     BuildEmbeddings(FindByType(store', req[p].entity_type,
                                                req[p].tenant_id, req[p].cell_id,
                                                embeddings_limit))
      ]_vars

\* C26: the text built for a stored entity when the embedding cache is filled
\* and the text built for an incoming observation are the same for every
\* name and attribute map.
C26_SameTextForEntityAndCandidate ==
    \A p \in Procs :
        pc[p] # "idle" =>
            EntityText(req[p].name, req[p].attributes)
                = CandidateText(req[p].name, req[p].attributes)

\* C27: every step of a call adds as many entities as it counts creates and
\* rewrites as many as it counts updates; a call makes at most one write in
\* all: one update and no create when it returns 'matched', one create and
\* no update when it returns 'created', none when it returns 'no_match'.
C27_AtMostOneWritePerCall ==
    [][LET created == Len(store') - Len(store)
           updated == Cardinality({i \in 1..Len(store) : store'[i] # store[i]})
       IN  /\ created = (ghost'["p1"].creates + ghost'["p2"].creates)
                        - (ghost["p1"].creates + ghost["p2"].creates)
           /\ updated = (ghost'["p1"].updates + ghost'["p2"].updates)
                        - (ghost["p1"].updates + ghost["p2"].updates)
           /\ \A p \in Procs :
                 /\ ghost'[p].creates + ghost'[p].updates <= 1
                 /\ pc'[p] = "done" =>
                       /\ result'[p].action = "matched" =>
                             ghost'[p].updates = 1 /\ ghost'[p].creates = 0
                       /\ result'[p].action = "created" =>
                             ghost'[p].creates = 1 /\ ghost'[p].updates = 0
                       /\ result'[p].action = "no_match" =>
                             ghost'[p].creates = 0 /\ ghost'[p].updates = 0
      ]_vars

C27_Witness ==
    \E p \in Procs :
        /\ pc[p] = "done"
        /\ result[p].action = "matched"
        /\ ghost[p].updates = 1
        /\ ghost[p].creates = 0
        /\ Len(store) = Len(ghost[p].start_store)
        /\ store # ghost[p].start_store

\* C28: after any interleaving of two merges into one entity, the entity's
\* attribute map holds every populated key of the map each completed merge
\* wrote.
C28_ConcurrentMergesKeepKeys ==
    \A p \in Procs :
        (pc[p] = "done" /\ result[p].action = "matched") =>
            LET wrote == result[p].entity.attributes
                now == store[result[p].entity.id].attributes
            IN  \A k \in DOMAIN wrote :
                    Truthy(wrote[k]) => (k \in DOMAIN now /\ Truthy(now[k]))

\* C29: calls with different (entity_type, tenant_id, cell_id) use different
\* cache keys, and the semantic matches of a call are entities of its own
\* type, tenant and cell.
C29_CacheKeyInjective ==
    \A p \in Procs :
        /\ \A q \in Procs :
              (/\ pc[p] # "idle"
               /\ pc[q] # "idle"
               /\ CacheKeyOf(req[p]) = CacheKeyOf(req[q])) =>
                  /\ req[p].entity_type = req[q].entity_type
                  /\ req[p].tenant_id = req[q].tenant_id
                  /\ req[p].cell_id = req[q].cell_id
        /\ Decided(p) =>
              \A k \in 1..Len(work[p].produced) :
                  work[p].produced[k].match_method = SEMANTIC =>
                      SameScope(store[work[p].produced[k].matched_entity_id], req[p])

\* the entities persisted before call p started, of its observation's type,
\* tenant and cell, whose name differs from the observation's only in case
CaseVariants(p) ==
    {i \in 1..Len(ghost[p].start_store) :
        /\ SameScope(ghost[p].start_store[i], req[p])
        /\ ghost[p].start_store[i].name # req[p].name
        /\ Lower(ghost[p].start_store[i].name) = Lower(req[p].name)}

\* C30: a HYBRID call whose observation differs only in case from a persisted
\* entity of its scope, no persisted entity having its exact name, gets no
\* EXACT match and a FUZZY match of confidence 1.0 for that entity, returns
\* 'matched' with method FUZZY into such an entity, and creates nothing.
C30_CaseVariantMatchedByFuzzy ==
    \A p \in Procs :
        (/\ req[p].match_method = HYBRID
         /\ CaseVariants(p) # {}
         /\ PersistedDuplicates(p) = {}) =>
            /\ pc[p] \in {"fuzzy", "sem_get", "sem_query", "sem_set"} =>
                   \A k \in 1..Len(matches[p]) : matches[p][k].match_method # EXACT
            /\ pc[p] \in {"sem_get", "sem_query", "sem_set"} =>
                   \A i \in CaseVariants(p) : Holds(matches[p], Match(i, 100, FUZZY))
            /\ pc[p] # "create"
            /\ ghost[p].creates = 0
            /\ pc[p] = "done" =>
                   /\ result[p].action = "matched"
                   /\ result[p].match_method = FUZZY
                   /\ result[p].match_confidence = 100
                   /\ result[p].entity.id \in CaseVariants(p)

====
